---- MODULE Spec2Model ----
(***************************************************************************)
(* Candidate Email Manager: the delayed-queue campaign engine of           *)
(* src/candidate_email_manager.py (class CandidateEmailManager).           *)
(*                                                                         *)
(* The store is the three tables of setup_database.  Row ids are the       *)
(* positions 1, 2, ... the store hands out on INSERT (add_candidate reads  *)
(* the new id back with RETURNING id).  Every conn.execute is its own      *)
(* committed statement: the code opens no transaction, so conn.commit()    *)
(* at the end of an operation has nothing left to commit.                  *)
(*                                                                         *)
(* Time is counted in days; CURRENT_TIMESTAMP and datetime.now() read the  *)
(* clock `now`.                                                            *)
(*                                                                         *)
(* The click-to-send web app of src/app (its own database and handlers)    *)
(* is modelled next to the manager; the two share no state.                *)
(***************************************************************************)
EXTENDS Integers, Sequences, FiniteSets

\* ---------------------------------------------------------------- bounds
MaxTime == 5            \* the clock stops here
MaxTriggers == 1        \* trigger_email_sequence calls that find their candidate
MaxReenrollTriggers == 2 \* the same, where a candidate is enrolled again
MaxEditTriggers == 1    \* the same, where templates are removed
MaxOverlapTriggers == 1 \* the same, where operations overlap
MaxMissing == 1         \* templates missing at one time
MaxAppCandidates == 2   \* rows of the web app's candidates table
MaxStatusTriggers == 1  \* the same, in each of two runs side by side
MaxCrashTriggers == 1   \* the same, where a pass is stopped part-way
MaxCrashSends == 1      \* send_email calls for a row after which no pass is stopped any more
MaxRenderTriggers == 1  \* the same, where positions vary
MaxEmptyTriggers == 2   \* trigger_email_sequence calls, where the template list is emptied

\* The addresses add_candidate is called with; email is UNIQUE, so they also
\* bound the candidates table.
Emails == {"a@x", "b@x"}
\* The name and position the menu is answered with, and the positions the
\* rendering is explored with: a text, the empty text (the menu's input
\* stripped) and Python's None (a NULL column).
Name == "Ann"
Position == "Engineer"
PyNone == "<None>"
Positions == {Position, "", PyNone}
MaxCandidates == Cardinality(Emails)
Workers == {"w1", "w2"}
\* The two runs compared, and a store with empty tables.
Runs == {1, 2}
EmptyStore ==
    [candidates |-> <<>>, email_queue |-> <<>>, email_logs |-> <<>>,
     calls |-> <<>>, fetched |-> {}]
\* The requests the web app handles at a time.
Requests == {"h1", "h2"}
MainWorker == "w1"

\* ------------------------------------------------------------- templates
\* load_email_templates: sequence numbers 1, 2, 3 with delay_days 0, 2, 5.
TemplateDelays == <<0, 2, 5>>
SequenceNumbers == DOMAIN TemplateDelays
delay_days(s) == TemplateDelays[s]

RECURSIVE Ascending(_)
\* The ascending list of a set of sequence numbers (the list order of
\* load_email_templates).
Ascending(S) ==
    IF S = {} THEN <<>>
    ELSE LET m == CHOOSE x \in S : \A y \in S : x <= y
         IN <<m>> \o Ascending(S \ {m})

Range(f) == {f[i] : i \in DOMAIN f}

\* The template texts of load_email_templates, as the pieces str.format
\* sees: literal text and replacement fields (the literal text shortened).
TemplateSubject ==
    <<  <<"Welcome to Our Recruitment Process - ", "{candidate_name}">>,
        <<"Application Update - Next Steps for ", "{candidate_name}">>,
        <<"Final Steps - ", "{position}", " Opportunity">>  >>
TemplateBody ==
    <<  <<"Hi ", "{candidate_name}", ", Thank you for your interest in the ",
          "{position}", " position at our company! ...">>,
        <<"Hi ", "{candidate_name}", ", ... your application for the ",
          "{position}", " role, ...">>,
        <<"Hi ", "{candidate_name}", ", ... our process for the ",
          "{position}", " role. ...">>  >>

\* str.format's conversion of a value: str(None) is the text None.
str(v) == IF v = PyNone THEN "None" ELSE v

\* template.subject.format(candidate_name=name, position=position): every
\* replacement field becomes str() of its value; the result is the
\* concatenation, to which an empty text adds nothing.
format(text, candidate_name, position) ==
    LET field(piece) ==
            IF piece = "{candidate_name}" THEN str(candidate_name)
            ELSE IF piece = "{position}" THEN str(position)
            ELSE piece
        pieces == [i \in DOMAIN text |-> field(text[i])]
    IN SelectSeq(pieces, LAMBDA piece : piece # "")

VARIABLES
    now,              \* the clock, in days
    candidates,       \* table candidates: row id |-> [name, email, position, status]
    email_templates,  \* self.email_templates: list of sequence numbers
    email_queue,      \* table email_queue: row id |-> [candidate_id, email_sequence, scheduled_for, status]
    email_logs,       \* table email_logs, in insertion order: [candidate_id, email_sequence, subject, status, error_message]
    calls,            \* queue row id |-> the send_email invocations made for it: [ok, failed]
    triggered,        \* candidate id |-> number of trigger_email_sequence calls that found it
    tpc,              \* trigger_email_sequence: "idle", "not_found" (line 203), "insert" (in the loop), "raised" (left by an exception)
    tcid,             \* its candidate_id
    base_date,        \* its base_date
    tidx,             \* position of its loop in self.email_templates
    tfirst,           \* number of queue rows when its loop began
    tplanned,         \* number of templates when its loop began
    wpc,              \* process_email_queue, per invocation: "idle", "loop", "update", "log"
    pending_emails,   \* the rows (ids) its SELECT fetched
    wrest,            \* the fetched rows its loop has not reached yet
    wcur,             \* the row of the current iteration (0: none)
    wsuccess,         \* success of the current iteration
    runs,             \* two runs of the manager side by side: run |-> [candidates, email_queue, email_logs, calls, fetched]
    app_candidates,   \* src/app: table candidates (no key), in insertion order: [id, stage]
    app_pc,           \* src/app: per request being handled, where its handler is
    next_id,          \* src/app: add_candidate's next_id
    route_id,         \* src/app: send_email_route's candidate_id
    route_candidates  \* src/app: send_email_route's candidates (what get_candidates returned)

vars == <<now, candidates, email_templates, email_queue, email_logs, calls,
          triggered, tpc, tcid, base_date, tidx, tfirst, tplanned,
          wpc, pending_emails, wrest, wcur, wsuccess,
          runs, app_candidates, app_pc, next_id, route_id, route_candidates>>

triggerVars == <<triggered, tpc, tcid, base_date, tidx, tfirst, tplanned>>
passVars == <<wpc, pending_emails, wrest, wcur, wsuccess>>
managerVars == <<candidates, email_templates, email_queue, email_logs, calls>>
appVars == <<app_candidates, app_pc, next_id, route_id, route_candidates>>
\* What the operations of the manager leave alone.
otherVars == <<runs, appVars>>

\* ------------------------------------------------------------------ Init
Init ==
    /\ now = 0
    /\ candidates = <<>>
    /\ email_templates = Ascending(SequenceNumbers)
    /\ email_queue = <<>>
    /\ email_logs = <<>>
    /\ calls = <<>>
    /\ triggered = [c \in 1..MaxCandidates |-> 0]
    /\ tpc = "idle"
    /\ tcid = 0
    /\ base_date = 0
    /\ tidx = 0
    /\ tfirst = 0
    /\ tplanned = 0
    /\ wpc = [w \in Workers |-> "idle"]
    /\ pending_emails = [w \in Workers |-> {}]
    /\ wrest = [w \in Workers |-> {}]
    /\ wcur = [w \in Workers |-> 0]
    /\ wsuccess = [w \in Workers |-> FALSE]
    /\ runs = [r \in Runs |-> EmptyStore]
    /\ app_candidates = <<>>
    /\ app_pc = [h \in Requests |-> "idle"]
    /\ next_id = [h \in Requests |-> 0]
    /\ route_id = [h \in Requests |-> 0]
    /\ route_candidates = [h \in Requests |-> <<>>]

\* ----------------------------------------------------------------- clock
Tick ==
    /\ UNCHANGED otherVars
    /\ now < MaxTime
    /\ now' = now + 1
    /\ UNCHANGED <<candidates, email_templates, email_queue, email_logs, calls>>
    /\ UNCHANGED triggerVars
    /\ UNCHANGED passVars

\* --------------------------------------------------------- add_candidate
\* INSERT INTO candidates ... RETURNING id; email is UNIQUE: a duplicate
\* raises inside the try and the method returns None with nothing written.
\* A faulty add_candidate, for comparison: the email column is not UNIQUE.
add_candidate_NoUnique(name, email, position) ==
    /\ UNCHANGED otherVars
    /\ candidates' = Append(candidates,
            [name |-> name, email |-> email, position |-> position,
             status |-> "active"])
    /\ UNCHANGED <<now, email_templates, email_queue, email_logs, calls>>
    /\ UNCHANGED triggerVars
    /\ UNCHANGED passVars

\* What add_candidate returns: the id read back with RETURNING id, or None
\* from the except branch when the INSERT was refused.
add_candidate_result(email) ==
    IF \E i \in DOMAIN candidates : candidates[i].email = email
    THEN PyNone
    ELSE Len(candidates) + 1

add_candidate(name, email, position) ==
    /\ UNCHANGED otherVars
    /\ IF \E i \in DOMAIN candidates : candidates[i].email = email
       THEN UNCHANGED candidates
       ELSE candidates' = Append(candidates,
                [name |-> name, email |-> email, position |-> position,
                 status |-> "active"])
    /\ UNCHANGED <<now, email_templates, email_queue, email_logs, calls>>
    /\ UNCHANGED triggerVars
    /\ UNCHANGED passVars

\* ------------------------------------------------- the template list
\* self.email_templates is a plain list attribute of the manager; the
\* template editor removes and restores a stage by sequence number.
RemoveTemplate(s) ==
    /\ UNCHANGED otherVars
    /\ s \in Range(email_templates)
    /\ email_templates' = Ascending(Range(email_templates) \ {s})
    /\ UNCHANGED <<now, candidates, email_queue, email_logs, calls>>
    /\ UNCHANGED triggerVars
    /\ UNCHANGED passVars

\* CandidateEmailManager.__init__ on the file of an earlier run: the tables
\* are kept (CREATE TABLE IF NOT EXISTS) and the template list is loaded
\* anew.  It is how a removed template comes back, and how the program
\* goes on after an exception ended it.
Restart ==
    /\ UNCHANGED otherVars
    /\ email_templates' = Ascending(SequenceNumbers)
    /\ tpc' = "idle"
    /\ tcid' = 0
    /\ base_date' = 0
    /\ tidx' = 0
    /\ tfirst' = 0
    /\ tplanned' = 0
    /\ tpc # "insert"
    /\ UNCHANGED <<now, candidates, email_queue, email_logs, calls, triggered>>
    /\ UNCHANGED passVars

\* ------------------------------------------------ trigger_email_sequence
RECURSIVE SumTo(_, _)
SumTo(f, n) == IF n = 0 THEN 0 ELSE f[n] + SumTo(f, n - 1)
TriggerCount == SumTo(triggered, MaxCandidates)

\* A faulty QueueRow, for comparison: the template's delay is not added.
QueueRow_NoDelay(candidate_id, template, base) ==
    [candidate_id |-> candidate_id,
     email_sequence |-> template,
     scheduled_for |-> base,
     status |-> "pending"]

\* A faulty QueueRow, for comparison: the sequence number is off by one.
QueueRow_NextSequence(candidate_id, template, base) ==
    [candidate_id |-> candidate_id,
     email_sequence |-> template + 1,
     scheduled_for |-> base + delay_days(template),
     status |-> "pending"]

\* The row one loop iteration inserts: status takes the column default.
QueueRow(candidate_id, template, base) ==
    [candidate_id |-> candidate_id,
     email_sequence |-> template,
     scheduled_for |-> base + delay_days(template),
     status |-> "pending"]

\* A faulty TriggerStart, for comparison: the candidate is not looked up.
TriggerStart_NoCheck(candidate_id) ==
    /\ UNCHANGED otherVars
    /\ tpc = "idle"
    /\ tpc' = "insert"
    /\ tcid' = candidate_id
    /\ base_date' = now
    /\ tidx' = 1
    /\ tfirst' = Len(email_queue)
    /\ tplanned' = Len(email_templates)
    /\ triggered' = [c \in DOMAIN triggered |->
                        IF c = candidate_id THEN triggered[c] + 1 ELSE triggered[c]]
    /\ UNCHANGED <<now, candidates, email_templates, email_queue, email_logs, calls>>
    /\ UNCHANGED passVars

\* Lines 198-210: look the candidate up; when it is not there go to the
\* message of line 203, else read the clock and enter the loop.
TriggerStart(candidate_id) ==
    /\ UNCHANGED otherVars
    /\ tpc = "idle"
    /\ IF candidate_id \in DOMAIN candidates
       THEN /\ tpc' = "insert"
            /\ tcid' = candidate_id
            /\ base_date' = now
            /\ tidx' = 1
            /\ tfirst' = Len(email_queue)
            /\ tplanned' = Len(email_templates)
            /\ triggered' = [triggered EXCEPT ![candidate_id] = @ + 1]
       ELSE /\ tpc' = "not_found"
            /\ tcid' = candidate_id
            /\ UNCHANGED <<triggered, base_date, tidx, tfirst, tplanned>>
    /\ UNCHANGED <<now, candidates, email_templates, email_queue, email_logs, calls>>
    /\ UNCHANGED passVars

\* Lines 203-204: the candidate was not found: print the message and return.
TriggerNotFound ==
    /\ UNCHANGED otherVars
    /\ tpc = "not_found"
    /\ tpc' = "idle"
    /\ tcid' = 0
    /\ UNCHANGED <<triggered, base_date, tidx, tfirst, tplanned>>
    /\ UNCHANGED <<now, candidates, email_templates, email_queue, email_logs, calls>>
    /\ UNCHANGED passVars

\* Lines 211-217: one iteration of the loop over self.email_templates.
TriggerInsert ==
    /\ UNCHANGED otherVars
    /\ tpc = "insert"
    /\ tidx <= Len(email_templates)
    /\ email_queue' = Append(email_queue, QueueRow(tcid, email_templates[tidx], base_date))
    /\ calls' = Append(calls, [ok |-> 0, failed |-> 0])
    /\ tidx' = tidx + 1
    /\ UNCHANGED <<now, candidates, email_templates, email_logs>>
    /\ UNCHANGED <<triggered, tpc, tcid, base_date, tfirst, tplanned>>
    /\ UNCHANGED passVars

\* Lines 219-220: the loop is over; commit and return.
TriggerReturn ==
    /\ UNCHANGED otherVars
    /\ tpc = "insert"
    /\ tidx > Len(email_templates)
    /\ tpc' = "idle"
    /\ tcid' = 0
    /\ base_date' = 0
    /\ tidx' = 0
    /\ tfirst' = 0
    /\ tplanned' = 0
    /\ UNCHANGED <<now, candidates, email_templates, email_queue, email_logs, calls, triggered>>
    /\ UNCHANGED passVars

\* conn.execute of line 214 raises (the store is unreachable) or the
\* process ends between two iterations: nothing catches it and nothing
\* rolls back, so the rows inserted so far stay in the table.
TriggerRaise ==
    /\ UNCHANGED otherVars
    /\ tpc = "insert"
    /\ tidx <= Len(email_templates)
    /\ tpc' = "raised"
    /\ UNCHANGED <<now, candidates, email_templates, email_queue, email_logs, calls>>
    /\ tcid' = 0
    /\ base_date' = 0
    /\ UNCHANGED <<triggered, tidx, tfirst, tplanned>>
    /\ UNCHANGED passVars

\* --------------------------------------------------- process_email_queue
\* A faulty DueRows, for comparison: no status filter.
DueRows_AnyStatus(t) ==
    {q \in DOMAIN email_queue :
        /\ email_queue[q].candidate_id \in DOMAIN candidates
        /\ email_queue[q].scheduled_for <= t}

\* A faulty DueRows, for comparison: the due time is compared with <.
DueRows_Exclusive(t) ==
    {q \in DOMAIN email_queue :
        /\ email_queue[q].candidate_id \in DOMAIN candidates
        /\ email_queue[q].status = "pending"
        /\ email_queue[q].scheduled_for < t}

\* A faulty DueRows, for comparison: failed rows are fetched again (a retry).
DueRows_Retry(t) ==
    {q \in DOMAIN email_queue :
        /\ email_queue[q].candidate_id \in DOMAIN candidates
        /\ email_queue[q].status \in {"pending", "failed"}
        /\ email_queue[q].scheduled_for <= t}

\* Lines 262-269: the rows the SELECT returns at CURRENT_TIMESTAMP = t.
DueRows(t) ==
    {q \in DOMAIN email_queue :
        /\ email_queue[q].candidate_id \in DOMAIN candidates
        /\ email_queue[q].status = "pending"
        /\ email_queue[q].scheduled_for <= t}

\* Lines 262-275: fetch; return at once when nothing is due.
SelectPending(w) ==
    /\ UNCHANGED otherVars
    /\ wpc[w] = "idle"
    /\ LET rows == DueRows(now)
       IN IF rows = {}
          THEN UNCHANGED passVars
          ELSE /\ wpc' = [wpc EXCEPT ![w] = "loop"]
               /\ pending_emails' = [pending_emails EXCEPT ![w] = rows]
               /\ wrest' = [wrest EXCEPT ![w] = rows]
               /\ UNCHANGED <<wcur, wsuccess>>
    /\ UNCHANGED <<now, candidates, email_templates, email_queue, email_logs, calls>>
    /\ UNCHANGED triggerVars

\* ORDER BY eq.scheduled_for: the loop reaches the fetched rows earliest
\* first; the order among rows of equal scheduled_for is the store's.
NextRows(w) ==
    {q \in wrest[w] :
        \A r \in wrest[w] : email_queue[q].scheduled_for <= email_queue[r].scheduled_for}

\* A faulty SkipRow, for comparison: the row without a template is marked failed.
SkipRow_Fail(w) ==
    /\ UNCHANGED otherVars
    /\ wpc[w] = "loop"
    /\ \E q \in NextRows(w) :
        /\ email_queue[q].email_sequence \notin Range(email_templates)
        /\ wrest' = [wrest EXCEPT ![w] = @ \ {q}]
        /\ email_queue' = [email_queue EXCEPT ![q].status = "failed"]
    /\ UNCHANGED <<now, candidates, email_templates, email_logs, calls>>
    /\ UNCHANGED triggerVars
    /\ UNCHANGED <<wpc, pending_emails, wcur, wsuccess>>

\* Lines 279-281: no template of that sequence number: continue.
SkipRow(w) ==
    /\ UNCHANGED otherVars
    /\ wpc[w] = "loop"
    /\ \E q \in NextRows(w) :
        /\ email_queue[q].email_sequence \notin Range(email_templates)
        /\ wrest' = [wrest EXCEPT ![w] = @ \ {q}]
    /\ UNCHANGED <<now, candidates, email_templates, email_queue, email_logs, calls>>
    /\ UNCHANGED triggerVars
    /\ UNCHANGED <<wpc, pending_emails, wcur, wsuccess>>

\* A faulty SendRow, for comparison: a failed send raises out of the pass.
SendRow_Abort(w) ==
    /\ UNCHANGED otherVars
    /\ wpc[w] = "loop"
    /\ \E q \in NextRows(w), success \in BOOLEAN :
        /\ email_queue[q].email_sequence \in Range(email_templates)
        /\ calls' = [calls EXCEPT ![q] = IF success THEN [@ EXCEPT !.ok = @ + 1]
                                                    ELSE [@ EXCEPT !.failed = @ + 1]]
        /\ IF success
           THEN /\ wcur' = [wcur EXCEPT ![w] = q]
                /\ wsuccess' = [wsuccess EXCEPT ![w] = success]
                /\ wrest' = [wrest EXCEPT ![w] = @ \ {q}]
                /\ wpc' = [wpc EXCEPT ![w] = "update"]
                /\ UNCHANGED pending_emails
           ELSE /\ wpc' = [wpc EXCEPT ![w] = "idle"]
                /\ wrest' = [wrest EXCEPT ![w] = {}]
                /\ pending_emails' = [pending_emails EXCEPT ![w] = {}]
                /\ UNCHANGED <<wcur, wsuccess>>
    /\ UNCHANGED <<now, candidates, email_templates, email_queue, email_logs>>
    /\ UNCHANGED triggerVars

\* Lines 279-288: render and call send_email, which returns True or, on
\* any exception, False (lines 256-258).
SendRow(w) ==
    /\ UNCHANGED otherVars
    /\ wpc[w] = "loop"
    /\ \E q \in NextRows(w), success \in BOOLEAN :
        /\ email_queue[q].email_sequence \in Range(email_templates)
        /\ calls' = [calls EXCEPT ![q] = IF success THEN [@ EXCEPT !.ok = @ + 1]
                                                    ELSE [@ EXCEPT !.failed = @ + 1]]
        /\ wcur' = [wcur EXCEPT ![w] = q]
        /\ wsuccess' = [wsuccess EXCEPT ![w] = success]
        /\ wrest' = [wrest EXCEPT ![w] = @ \ {q}]
        /\ wpc' = [wpc EXCEPT ![w] = "update"]
    /\ UNCHANGED <<now, candidates, email_templates, email_queue, email_logs>>
    /\ UNCHANGED triggerVars
    /\ UNCHANGED pending_emails

ResultStatus(success) == IF success THEN "sent" ELSE "failed"

\* Lines 284-285: the subject and body rendered for a fetched row, from its
\* template and the name and position the SELECT joined to it.
RenderedSubject(q) ==
    format(TemplateSubject[email_queue[q].email_sequence],
           candidates[email_queue[q].candidate_id].name,
           candidates[email_queue[q].candidate_id].position)
RenderedBody(q) ==
    format(TemplateBody[email_queue[q].email_sequence],
           candidates[email_queue[q].candidate_id].name,
           candidates[email_queue[q].candidate_id].position)

\* Lines 291-295: UPDATE email_queue SET status = ? WHERE id = ?
UpdateRow(w) ==
    /\ UNCHANGED otherVars
    /\ wpc[w] = "update"
    /\ email_queue' = [email_queue EXCEPT ![wcur[w]].status = ResultStatus(wsuccess[w])]
    /\ wpc' = [wpc EXCEPT ![w] = "log"]
    /\ UNCHANGED <<now, candidates, email_templates, email_logs, calls>>
    /\ UNCHANGED triggerVars
    /\ UNCHANGED <<pending_emails, wrest, wcur, wsuccess>>

\* A faulty LogEntry, for comparison: the error detail is dropped.
LogEntry_NoDetail(q, success) ==
    [candidate_id |-> email_queue[q].candidate_id,
     email_sequence |-> email_queue[q].email_sequence,
     subject |-> RenderedSubject(q),
     status |-> ResultStatus(success),
     error_message |-> "None"]

\* A faulty LogEntry, for comparison: the status column is left to its
\* default, sent.
LogEntry_DefaultStatus(q, success) ==
    [candidate_id |-> email_queue[q].candidate_id,
     email_sequence |-> email_queue[q].email_sequence,
     subject |-> RenderedSubject(q),
     status |-> "sent",
     error_message |-> IF success THEN "None" ELSE "SMTP Error"]

\* Lines 298-302: INSERT INTO email_logs.
LogEntry(q, success) ==
    [candidate_id |-> email_queue[q].candidate_id,
     email_sequence |-> email_queue[q].email_sequence,
     subject |-> RenderedSubject(q),
     status |-> ResultStatus(success),
     error_message |-> IF success THEN "None" ELSE "SMTP Error"]

LogRow(w) ==
    /\ UNCHANGED otherVars
    /\ wpc[w] = "log"
    /\ email_logs' = Append(email_logs, LogEntry(wcur[w], wsuccess[w]))
    /\ wpc' = [wpc EXCEPT ![w] = "loop"]
    /\ wcur' = [wcur EXCEPT ![w] = 0]
    /\ wsuccess' = [wsuccess EXCEPT ![w] = FALSE]
    /\ UNCHANGED <<now, candidates, email_templates, email_queue, calls>>
    /\ UNCHANGED triggerVars
    /\ UNCHANGED <<pending_emails, wrest>>

\* Lines 304-305: the loop is over; commit and return.
PassReturn(w) ==
    /\ UNCHANGED otherVars
    /\ wpc[w] = "loop"
    /\ wrest[w] = {}
    /\ wpc' = [wpc EXCEPT ![w] = "idle"]
    /\ pending_emails' = [pending_emails EXCEPT ![w] = {}]
    /\ UNCHANGED <<now, candidates, email_templates, email_queue, email_logs, calls>>
    /\ UNCHANGED triggerVars
    /\ UNCHANGED <<wrest, wcur, wsuccess>>

\* The pass stops part-way: conn.execute of line 291 or of line 298 raises
\* (the store is unreachable), or the process ends between two rows.
\* Nothing in process_email_queue catches it and nothing is undone: what
\* the iteration has done so far stays, the rest is not done.  The call is
\* over; the program is started again.
PassRaise(w) ==
    /\ UNCHANGED otherVars
    /\ wpc[w] \in {"loop", "update", "log"}
    /\ wpc' = [wpc EXCEPT ![w] = "idle"]
    /\ pending_emails' = [pending_emails EXCEPT ![w] = {}]
    /\ wrest' = [wrest EXCEPT ![w] = {}]
    /\ wcur' = [wcur EXCEPT ![w] = 0]
    /\ wsuccess' = [wsuccess EXCEPT ![w] = FALSE]
    /\ UNCHANGED <<now, candidates, email_templates, email_queue, email_logs, calls>>
    /\ UNCHANGED triggerVars

\* What process_email_queue hands back to its caller: the bare return of
\* line 273 and the end of the body after line 305 both give None.
process_email_queue_result == "None"

\* ------------------------------------------ the manager as functions
\* The operations of CandidateEmailManager once more, as functions from
\* store to store, each call run to its end: the form in which two runs
\* are stepped side by side.  st is a store; t is the clock.

\* add_candidate: status takes the column default 'active'.
AddIn(st, name, email, position) ==
    IF \E i \in DOMAIN st.candidates : st.candidates[i].email = email
    THEN st
    ELSE [st EXCEPT !.candidates =
            Append(@, [name |-> name, email |-> email, position |-> position,
                       status |-> "active"])]

\* The status column of a candidate set from outside the manager, which
\* itself only reads it for the dashboard count.
SetStatusIn(st, c, status) == [st EXCEPT !.candidates[c].status = status]

\* trigger_email_sequence: nothing for an unknown id, else one row per
\* template of self.email_templates.
EnrollIn(st, candidate_id, t) ==
    IF candidate_id \notin DOMAIN st.candidates
    THEN st
    ELSE [st EXCEPT
            !.email_queue = @ \o [i \in DOMAIN email_templates |->
                                    QueueRow(candidate_id, email_templates[i], t)],
            !.calls = @ \o [i \in DOMAIN email_templates |-> [ok |-> 0, failed |-> 0]]]

\* A faulty DueRowsIn, for comparison: the rows of inactive candidates are
\* held back.
DueRowsIn_ActiveOnly(st, t) ==
    {q \in DOMAIN st.email_queue :
        /\ st.email_queue[q].candidate_id \in DOMAIN st.candidates
        /\ st.candidates[st.email_queue[q].candidate_id].status = "active"
        /\ st.email_queue[q].status = "pending"
        /\ st.email_queue[q].scheduled_for <= t}

\* Lines 262-269: the SELECT of process_email_queue.
DueRowsIn(st, t) ==
    {q \in DOMAIN st.email_queue :
        /\ st.email_queue[q].candidate_id \in DOMAIN st.candidates
        /\ st.email_queue[q].status = "pending"
        /\ st.email_queue[q].scheduled_for <= t}

\* Lines 262-275: the pass begins with the rows fetched.
SelectIn(st, t) == [st EXCEPT !.fetched = DueRowsIn(st, t)]

\* ORDER BY eq.scheduled_for: the fetched rows the loop may reach next.
NextRowsIn(st) ==
    {q \in st.fetched :
        \A r \in st.fetched :
            st.email_queue[q].scheduled_for <= st.email_queue[r].scheduled_for}

\* Lines 277-302: one iteration of the loop for row q, send_email
\* returning success.
ResolveIn(st, q, success) ==
    LET row == st.email_queue[q]
        c == st.candidates[row.candidate_id]
    IN [st EXCEPT
            !.calls[q] = IF success THEN [@ EXCEPT !.ok = @ + 1]
                                    ELSE [@ EXCEPT !.failed = @ + 1],
            !.email_queue[q].status = ResultStatus(success),
            !.email_logs = Append(@,
                [candidate_id |-> row.candidate_id,
                 email_sequence |-> row.email_sequence,
                 subject |-> format(TemplateSubject[row.email_sequence], c.name, c.position),
                 status |-> ResultStatus(success),
                 error_message |-> IF success THEN "None" ELSE "SMTP Error"]),
            !.fetched = @ \ {q}]

\* Both runs are between operations.
NoRunInPass == \A r \in Runs : runs[r].fetched = {}

\* The two runs take the same operation with the same arguments, the same
\* clock and the same send_email outcome; only run 2 has statuses changed.
PairAdd(email) ==
    /\ NoRunInPass
    /\ runs' = [r \in Runs |-> AddIn(runs[r], Name, email, Position)]
    /\ UNCHANGED <<now, managerVars, triggerVars, passVars, appVars>>

PairSetStatus(c, status) ==
    /\ NoRunInPass
    /\ c \in DOMAIN runs[2].candidates
    /\ runs' = [runs EXCEPT ![2] = SetStatusIn(@, c, status)]
    /\ UNCHANGED <<now, managerVars, triggerVars, passVars, appVars>>

PairEnroll(candidate_id) ==
    /\ NoRunInPass
    /\ runs' = [r \in Runs |-> EnrollIn(runs[r], candidate_id, now)]
    /\ UNCHANGED <<now, managerVars, triggerVars, passVars, appVars>>

PairSelect ==
    /\ NoRunInPass
    /\ runs' = [r \in Runs |-> SelectIn(runs[r], now)]
    /\ UNCHANGED <<now, managerVars, triggerVars, passVars, appVars>>

PairResolve(q, success) ==
    /\ \E r \in Runs : q \in NextRowsIn(runs[r])
    /\ runs' = [r \in Runs |->
                    IF q \in NextRowsIn(runs[r])
                    THEN ResolveIn(runs[r], q, success)
                    ELSE runs[r]]
    /\ UNCHANGED <<now, managerVars, triggerVars, passVars, appVars>>

\* ------------------------------------------------- the web app, src/app
\* Every function of app.database opens the database anew and runs one
\* statement; the table has no key.  The handlers of app.main run one per
\* request, and requests are handled side by side.
appFrame == UNCHANGED <<now, managerVars, triggerVars, passVars, runs>>

\* database.get_next_id: MAX(id), or 0 for the empty table, plus 1.
RECURSIVE MaxId(_)
MaxId(rows) ==
    IF rows = <<>> THEN 0
    ELSE LET m == MaxId(Tail(rows))
         IN IF Head(rows).id > m THEN Head(rows).id ELSE m
get_next_id == MaxId(app_candidates) + 1

\* create_candidate, database.add_candidate line 27: read the next id.
AddRead(h) ==
    /\ app_pc[h] = "idle"
    /\ next_id' = [next_id EXCEPT ![h] = get_next_id]
    /\ app_pc' = [app_pc EXCEPT ![h] = "insert"]
    /\ UNCHANGED <<app_candidates, route_id, route_candidates>>
    /\ appFrame

\* database.add_candidate lines 28-31: INSERT the row with stage 0.
AddInsert(h) ==
    /\ app_pc[h] = "insert"
    /\ app_candidates' = Append(app_candidates, [id |-> next_id[h], stage |-> 0])
    /\ next_id' = [next_id EXCEPT ![h] = 0]
    /\ app_pc' = [app_pc EXCEPT ![h] = "idle"]
    /\ UNCHANGED <<route_id, route_candidates>>
    /\ appFrame

\* send_email_route line 24: candidates = get_candidates(), a list of
\* dicts with the keys id, name, email, stage.
RouteGet(h, candidate_id) ==
    /\ app_pc[h] = "idle"
    /\ route_id' = [route_id EXCEPT ![h] = candidate_id]
    /\ route_candidates' = [route_candidates EXCEPT ![h] = app_candidates]
    /\ app_pc' = [app_pc EXCEPT ![h] = "find"]
    /\ UNCHANGED <<app_candidates, next_id>>
    /\ appFrame

\* send_email_route line 25: next((c for c in candidates if c[0] ==
\* candidate_id), None).  c is a dict, so c[0] raises KeyError for the
\* first element there is: only the empty list gives None, and then line
\* 26 skips to the redirect.  Lines 27-29 (send_next_email, update_stage)
\* are never reached.
RouteFind(h) ==
    /\ app_pc[h] = "find"
    /\ app_pc' = [app_pc EXCEPT ![h] =
            IF route_candidates[h] = <<>> THEN "redirect" ELSE "KeyError"]
    /\ UNCHANGED <<app_candidates, next_id, route_id, route_candidates>>
    /\ appFrame

\* The response goes out: the redirect of line 30, or the server error
\* the framework makes of the exception.
RouteEnd(h) ==
    /\ app_pc[h] \in {"redirect", "KeyError"}
    /\ app_pc' = [app_pc EXCEPT ![h] = "idle"]
    /\ route_id' = [route_id EXCEPT ![h] = 0]
    /\ route_candidates' = [route_candidates EXCEPT ![h] = <<>>]
    /\ UNCHANGED <<app_candidates, next_id>>
    /\ appFrame

\* ------------------------------------------------------- specifications
\* No operation is in progress.
Quiet == tpc = "idle" /\ \A w \in Workers : wpc[w] = "idle"

\* The candidate ids trigger_email_sequence is called with: those the
\* table can hold and one it cannot.
CandidateIds == 1..(MaxCandidates + 1)

\* The calls explored: any call for an id that is not in the table, and up
\* to maxTriggers calls that find their candidate.
CanTrigger(c, maxTriggers) == c \notin DOMAIN candidates \/ TriggerCount < maxTriggers

\* The menu loop of main(): one operation at a time, each run to its end
\* before the next is started.  An operation reads the clock once, at its
\* start, so the clock is let advance between operations only.  After an
\* exception has ended the program it is started again.
MenuLoop(maxTriggers) ==
    \/ (Quiet /\ Tick)
    \/ (Quiet /\ \E e \in Emails : add_candidate(Name, e, Position))
    \/ (Quiet /\ \E c \in CandidateIds : CanTrigger(c, maxTriggers) /\ TriggerStart(c))
    \/ (Quiet /\ SelectPending(MainWorker))
    \/ TriggerNotFound
    \/ TriggerInsert
    \/ TriggerReturn
    \/ TriggerRaise
    \/ (tpc = "raised" /\ Restart)
    \/ SendRow(MainWorker)
    \/ UpdateRow(MainWorker)
    \/ LogRow(MainWorker)
    \/ PassReturn(MainWorker)

Next == MenuLoop(MaxTriggers)

Spec == Init /\ [][Next]_vars

\* The same program, a candidate enrolled more than once.
NextReenroll == MenuLoop(MaxReenrollTriggers)

SpecReenroll == Init /\ [][NextReenroll]_vars

\* The same program with a template deleted after scheduling: between two
\* operations a template may be removed from the list, and a restart loads
\* it again.
CanRemove == Len(email_templates) > Len(TemplateDelays) - MaxMissing

NextEdit ==
    \/ MenuLoop(MaxEditTriggers)
    \/ (Quiet /\ \E s \in SequenceNumbers : CanRemove /\ RemoveTemplate(s))
    \/ (Quiet /\ Restart)
    \/ SkipRow(MainWorker)

SpecEdit == Init /\ [][NextEdit]_vars

\* The web app: requests to add a candidate and to send the next email,
\* handled side by side.
CanAdd ==
    Len(app_candidates) + Cardinality({h \in Requests : app_pc[h] = "insert"})
        < MaxAppCandidates

NextApp ==
    \/ \E h \in Requests : CanAdd /\ AddRead(h)
    \/ \E h \in Requests : AddInsert(h)
    \/ \E h \in Requests, c \in 1..(MaxAppCandidates + 1) : RouteGet(h, c)
    \/ \E h \in Requests : RouteFind(h)
    \/ \E h \in Requests : RouteEnd(h)

SpecApp == Init /\ [][NextApp]_vars

\* Two runs of the program stepped side by side (one operation at a time,
\* each to its end), run 2 with candidate statuses changed.
CanEnroll == \A r \in Runs : Len(runs[r].email_queue) < MaxStatusTriggers * Len(TemplateDelays)

NextStatus ==
    \/ (NoRunInPass /\ Tick)
    \/ \E e \in Emails : PairAdd(e)
    \/ \E c \in 1..MaxCandidates, status \in {"active", "inactive"} : PairSetStatus(c, status)
    \/ \E c \in CandidateIds : CanEnroll /\ PairEnroll(c)
    \/ PairSelect
    \/ \E q \in 1..(MaxStatusTriggers * Len(TemplateDelays)), success \in BOOLEAN :
            PairResolve(q, success)

SpecStatus == Init /\ [][NextStatus]_vars

\* The same program, a pass being stopped part-way.
CanCrash == \A q \in DOMAIN email_queue : calls[q].ok + calls[q].failed <= MaxCrashSends

NextCrash ==
    \/ MenuLoop(MaxCrashTriggers)
    \/ (CanCrash /\ PassRaise(MainWorker))

SpecCrash == Init /\ [][NextCrash]_vars

\* The same program, the position of a candidate being any of Positions.
NextRender ==
    \/ (Quiet /\ Tick)
    \/ (Quiet /\ \E e \in Emails, p \in Positions : add_candidate(Name, e, p))
    \/ (Quiet /\ \E c \in CandidateIds : CanTrigger(c, MaxRenderTriggers) /\ TriggerStart(c))
    \/ (Quiet /\ SelectPending(MainWorker))
    \/ TriggerNotFound
    \/ TriggerInsert
    \/ TriggerReturn
    \/ SendRow(MainWorker)
    \/ UpdateRow(MainWorker)
    \/ LogRow(MainWorker)
    \/ PassReturn(MainWorker)

SpecRender == Init /\ [][NextRender]_vars

\* The same program with templates deleted one after another, down to the
\* empty list; they do not come back.
NextEmpty ==
    \/ (Quiet /\ Tick)
    \/ (Quiet /\ \E e \in Emails : add_candidate(Name, e, Position))
    \/ (Quiet /\ \E c \in CandidateIds : CanTrigger(c, MaxEmptyTriggers) /\ TriggerStart(c))
    \/ (Quiet /\ \E s \in SequenceNumbers : RemoveTemplate(s))
    \/ (Quiet /\ SelectPending(MainWorker))
    \/ TriggerNotFound
    \/ TriggerInsert
    \/ TriggerReturn
    \/ SkipRow(MainWorker)
    \/ SendRow(MainWorker)
    \/ UpdateRow(MainWorker)
    \/ LogRow(MainWorker)
    \/ PassReturn(MainWorker)

SpecEmpty == Init /\ [][NextEmpty]_vars

\* Overlapping invocations (a slow pass plus a new timer tick, an
\* enrollment during a pass): the steps of the operations interleave.  The
\* enrollments are those of stored candidates.
NextOverlap ==
    \/ Tick
    \/ \E e \in Emails : add_candidate(Name, e, Position)
    \/ \E c \in DOMAIN candidates : TriggerCount < MaxOverlapTriggers /\ TriggerStart(c)
    \/ TriggerInsert
    \/ TriggerReturn
    \/ \E w \in Workers : SelectPending(w)
    \/ \E w \in Workers : SendRow(w)
    \/ \E w \in Workers : UpdateRow(w)
    \/ \E w \in Workers : LogRow(w)
    \/ \E w \in Workers : PassReturn(w)

SpecOverlap == Init /\ [][NextOverlap]_vars

\* ================================================================ claims
Rows == DOMAIN email_queue
Resolved(q) == email_queue[q].status # "pending"
CallsFor(q) == calls[q].ok + calls[q].failed
RowsOf(c, s) ==
    {q \in Rows : email_queue[q].candidate_id = c /\ email_queue[q].email_sequence = s}
RowsOfCandidate(c) == {q \in Rows : email_queue[q].candidate_id = c}

RECURSIVE SumCalls(_)
SumCalls(S) ==
    IF S = {} THEN 0
    ELSE LET q == CHOOSE x \in S : TRUE IN CallsFor(q) + SumCalls(S \ {q})

\* send_email invocations for the pair (candidate id, sequence number).
SendsTo(c, s) == SumCalls(RowsOf(c, s))
LogsFor(c, s) ==
    Cardinality({i \in DOMAIN email_logs :
        email_logs[i].candidate_id = c /\ email_logs[i].email_sequence = s})
\* The loop of a pass has gone through every fetched row (line 304).
PassDone(w) == wpc[w] = "loop" /\ wrest[w] = {}
\* The loop of trigger_email_sequence is over (line 219).
TriggerDone == tpc = "insert" /\ tidx > Len(email_templates)
\* Every log entry stands for one resolved row of its pair.
LogsMatchRows ==
    \A c \in DOMAIN candidates, s \in SequenceNumbers :
        LogsFor(c, s) = Cardinality({q \in RowsOf(c, s) : Resolved(q)})

\* C1: for a candidate enrolled by exactly one trigger_email_sequence call,
\* however many passes run one after another, send_email is invoked at most
\* once for each (candidate id, sequence number).
C1_SentAtMostOnce ==
    \A c \in DOMAIN candidates :
        triggered[c] = 1 => \A s \in SequenceNumbers : SendsTo(c, s) <= 1

\* A later pass has resolved one row of a once-enrolled candidate whose
\* other row an earlier pass had sent.
C1_Witness ==
    /\ PassDone(MainWorker)
    /\ \E c \in DOMAIN candidates :
        /\ triggered[c] = 1
        /\ \E q \in pending_emails[MainWorker], r \in RowsOfCandidate(c) :
            /\ email_queue[q].candidate_id = c
            /\ r \notin pending_emails[MainWorker]
            /\ CallsFor(q) = 1
            /\ CallsFor(r) = 1

\* C2: after two or more trigger_email_sequence calls for one candidate the
\* queue never holds two pending rows with the same (candidate id, sequence
\* number), and a later call creates no row for a pair that already has one.
C2_NoDuplicateRows ==
    /\ \A q, r \in Rows :
        (/\ q # r
         /\ email_queue[q].candidate_id = email_queue[r].candidate_id
         /\ email_queue[q].email_sequence = email_queue[r].email_sequence)
        => ~(email_queue[q].status = "pending" /\ email_queue[r].status = "pending")
    /\ \A c \in DOMAIN candidates, s \in SequenceNumbers : Cardinality(RowsOf(c, s)) <= 1

\* C3: when two passes are interleaved over the same due rows, no row is
\* sent twice: one send_email invocation and one log entry per resolved row,
\* as in one sequential pass.
C3_NoDoubleSend ==
    /\ \A q \in Rows : CallsFor(q) <= 1
    /\ Len(email_logs) <= Cardinality({q \in Rows : Resolved(q)})

\* The single enrollment instant of a candidate: the due time of its
\* sequence-1 row, whose delay is 0.
EnrolledAt(c) == email_queue[CHOOSE q \in RowsOf(c, 1) : TRUE].scheduled_for
FullyEnrolledOnce(c) ==
    /\ triggered[c] = 1
    /\ \A s \in SequenceNumbers : Cardinality(RowsOf(c, s)) = 1
ResolvedCount(c) == Cardinality({q \in RowsOfCandidate(c) : Resolved(q)})

\* C4: a pass at time now attempts exactly the pending rows with
\* scheduled_for <= now (the boundary included) and leaves every row with
\* scheduled_for > now pending and unsent; for delays 0, 2, 5 from
\* enrollment at T the resolved rows after a pass at t number the delays d
\* with T + d <= t (1, 1, 2, 3 at T, T+1, T+2, T+5).
C4_DueGating ==
    /\ \A q \in Rows :
        email_queue[q].scheduled_for > now
            => email_queue[q].status = "pending" /\ CallsFor(q) = 0
    /\ \A q \in pending_emails[MainWorker] : email_queue[q].scheduled_for <= now
    /\ PassDone(MainWorker) =>
        /\ \A q \in Rows : email_queue[q].scheduled_for <= now => Resolved(q)
        /\ \A c \in DOMAIN candidates :
            FullyEnrolledOnce(c) =>
                ResolvedCount(c) =
                    Cardinality({s \in SequenceNumbers : EnrolledAt(c) + delay_days(s) <= now})

\* A pass at T + 2 days has resolved the row due exactly then; two rows of
\* the candidate are resolved and the third is still pending.
C4_Witness ==
    /\ PassDone(MainWorker)
    /\ \E c \in DOMAIN candidates :
        /\ FullyEnrolledOnce(c)
        /\ now = EnrolledAt(c) + 2
        /\ ResolvedCount(c) = 2
        /\ \E q \in pending_emails[MainWorker] :
            /\ email_queue[q].candidate_id = c
            /\ email_queue[q].scheduled_for = now

AllFailed == \A q \in Rows : calls[q].ok = 0

\* C5: with a Sender that fails on every call, a pass leaves every due row
\* failed, no row is ever sent, and the log holds one entry per failed row,
\* each with status failed and the error detail.
C5_AlwaysFailingSender ==
    AllFailed =>
        /\ \A q \in Rows : email_queue[q].status # "sent"
        /\ \A i \in DOMAIN email_logs :
            /\ email_logs[i].status = "failed"
            /\ email_logs[i].error_message = "SMTP Error"
        /\ wpc[MainWorker] # "log" => LogsMatchRows
        /\ PassDone(MainWorker) =>
            \A q \in Rows : email_queue[q].scheduled_for <= now
                                => email_queue[q].status = "failed"

\* Every send failed and the last pass has left all three rows of a
\* candidate failed, with their log entries.
C5_Witness ==
    /\ AllFailed
    /\ PassDone(MainWorker)
    /\ pending_emails[MainWorker] # {}
    /\ Len(email_logs) >= 3
    /\ \E c \in DOMAIN candidates :
        /\ FullyEnrolledOnce(c)
        /\ \A q \in RowsOfCandidate(c) : email_queue[q].status = "failed"

\* C6: a row's status changes only from pending to sent or failed, and only
\* in the UPDATE of a pass; a resolved row is never fetched or sent again,
\* and no row is removed.
C6_TerminalStatus ==
    [][/\ \A q \in DOMAIN email_queue :
            /\ q \in DOMAIN email_queue'
            /\ email_queue'[q].status # email_queue[q].status =>
                /\ email_queue[q].status = "pending"
                /\ email_queue'[q].status \in {"sent", "failed"}
                /\ \E w \in Workers : wpc[w] = "update" /\ wcur[w] = q
            /\ calls'[q] # calls[q] => email_queue[q].status = "pending"
       /\ \A w \in Workers :
            pending_emails'[w] # pending_emails[w] =>
                \A q \in pending_emails'[w] : email_queue[q].status = "pending"]_vars

\* A pass sends the row of a second enrollment while the failed row of the
\* same candidate and sequence number, resolved by an earlier pass and sent
\* once, is left as it is.
C6_Witness ==
    /\ PassDone(MainWorker)
    /\ \E q \in Rows \ pending_emails[MainWorker], r \in pending_emails[MainWorker] :
        /\ q < r
        /\ email_queue[q].candidate_id = email_queue[r].candidate_id
        /\ email_queue[q].email_sequence = email_queue[r].email_sequence
        /\ email_queue[q].status = "failed"
        /\ calls[q] = [ok |-> 0, failed |-> 1]
        /\ email_queue[r].status = "sent"

\* C7: a due row whose template is missing is skipped: it stays pending with
\* no send_email call and no log entry, the pass goes on to resolve its other
\* rows, and a pass that finds the template again resolves the row.
C7_MissingTemplateSkipped ==
    PassDone(MainWorker) =>
        /\ \A q \in pending_emails[MainWorker] :
            IF email_queue[q].email_sequence \in Range(email_templates)
            THEN Resolved(q) /\ CallsFor(q) = 1
            ELSE email_queue[q].status = "pending" /\ CallsFor(q) = 0
        /\ \A q \in Rows :
            (/\ email_queue[q].scheduled_for <= now
             /\ email_queue[q].email_sequence \in Range(email_templates)) => Resolved(q)
        /\ LogsMatchRows

\* A pass resolves a row that an earlier pass, which resolved a row due
\* later, had skipped for its missing template: the template is back.
C7_Witness ==
    /\ PassDone(MainWorker)
    /\ \E q \in pending_emails[MainWorker], r \in Rows \ pending_emails[MainWorker] :
        /\ email_queue[q].scheduled_for < email_queue[r].scheduled_for
        /\ Resolved(q)
        /\ Resolved(r)

\* C8: a Sender failure does not end the pass: the row becomes failed with
\* its log entry, and every row the pass fetched is attempted and resolved.
C8_FailureContained ==
    /\ \A q \in Rows :
        (calls[q].failed > 0 /\ \A w \in Workers : wcur[w] # q) =>
            /\ email_queue[q].status = "failed"
            /\ \E i \in DOMAIN email_logs :
                /\ email_logs[i].candidate_id = email_queue[q].candidate_id
                /\ email_logs[i].email_sequence = email_queue[q].email_sequence
                /\ email_logs[i].status = "failed"
    /\ PassDone(MainWorker) =>
        /\ \A q \in pending_emails[MainWorker] : Resolved(q) /\ CallsFor(q) = 1
        /\ LogsMatchRows

\* In one pass a send failed and a row due later was still sent.
C8_Witness ==
    /\ PassDone(MainWorker)
    /\ \E q, r \in pending_emails[MainWorker] :
        /\ email_queue[q].scheduled_for < email_queue[r].scheduled_for
        /\ email_queue[q].status = "failed"
        /\ email_queue[r].status = "sent"

\* C9: the rows of one enrollment are persisted as a unit: after a
\* trigger_email_sequence call that failed part-way the table holds none or
\* all of its rows.
C9_AtomicEnrollment ==
    tpc = "raised" => (Len(email_queue) - tfirst) \in {0, tplanned}

\* C10: one trigger_email_sequence call at instant T creates one row per
\* template, in ascending sequence-number order, each pending and due at
\* T + the template's delay, and no other row.
C10_OneRowPerTemplate ==
    TriggerDone =>
        /\ Len(email_queue) = tfirst + Len(email_templates)
        /\ \A i \in 1..Len(email_templates) :
            email_queue[tfirst + i] =
                [candidate_id |-> tcid,
                 email_sequence |-> email_templates[i],
                 scheduled_for |-> base_date + TemplateDelays[email_templates[i]],
                 status |-> "pending"]
        /\ \A i, j \in 1..Len(email_templates) :
            i < j => email_queue[tfirst + i].email_sequence
                        < email_queue[tfirst + j].email_sequence

\* An enrollment of the second candidate, after the clock has advanced,
\* has inserted its three rows.
C10_Witness ==
    /\ TriggerDone
    /\ tcid = 2
    /\ base_date > 0
    /\ Len(email_queue) = tfirst + 3

\* C11: trigger_email_sequence for a candidate id that is not in the
\* candidates table reports not-found (the message of line 203) and returns
\* with no row created: the queue and the log are as they were.  With an
\* empty template list the call enters its loop, creates no row and returns
\* normally.
C11_NotFoundNoOp ==
    [][/\ (tpc = "idle" /\ tpc' # "idle") =>
            IF tcid' \in DOMAIN candidates
            THEN tpc' = "insert"
            ELSE tpc' = "not_found" /\ UNCHANGED <<candidates, email_queue, email_logs, calls>>
       /\ tpc = "not_found" =>
            tpc' = "idle" /\ UNCHANGED <<candidates, email_queue, email_logs, calls>>
       /\ tpc' = "insert" => tcid' \in DOMAIN candidates
       /\ (tpc = "insert" /\ tplanned = 0) =>
            tpc' = "idle" /\ UNCHANGED <<candidates, email_queue, email_logs, calls>>]_vars

\* The message of line 203 is reached while the queue holds rows, the
\* template list is empty and a candidate enrolled with the empty list has
\* no row.
C11_Witness ==
    /\ tpc = "not_found"
    /\ tcid \notin DOMAIN candidates
    /\ email_templates = <<>>
    /\ email_queue # <<>>
    /\ \E c \in DOMAIN candidates : triggered[c] >= 1 /\ RowsOfCandidate(c) = {}

\* The report the caller is to get from a pass: the rows it resolved, and how
\* many of them were sent and failed.
DispatchReport(w) ==
    [attempted |-> Cardinality({q \in pending_emails[w] : Resolved(q)}),
     sent |-> Cardinality({q \in pending_emails[w] : email_queue[q].status = "sent"}),
     failed |-> Cardinality({q \in pending_emails[w] : email_queue[q].status = "failed"})]

\* C12: every process_email_queue call returns a report {attempted, sent,
\* failed} with attempted = sent + failed = the number of rows the pass
\* resolved, so that the caller can tell nothing due from some failed.
C12_ReturnsReport ==
    PassDone(MainWorker) =>
        /\ process_email_queue_result # "None"
        /\ process_email_queue_result = DispatchReport(MainWorker)
        /\ DispatchReport(MainWorker).attempted
                = DispatchReport(MainWorker).sent + DispatchReport(MainWorker).failed

\* The candidate of a row has no position value.
NoPosition(q) == candidates[email_queue[q].candidate_id].position \in {"", PyNone}

\* C13: when the candidate of a due row has no position value, the rendered
\* subject line and body keep the {position} placeholder literally, the
\* candidate name is still substituted, the pass does not crash and the row
\* is resolved as any other.
C13_PlaceholderKept ==
    /\ \A w \in Workers :
        (wpc[w] = "update" /\ NoPosition(wcur[w])) =>
            /\ "{position}" \in Range(RenderedBody(wcur[w]))
            /\ "{position}" \in Range(TemplateSubject[email_queue[wcur[w]].email_sequence])
                    => "{position}" \in Range(RenderedSubject(wcur[w]))
            /\ Name \in Range(RenderedBody(wcur[w]))
            /\ "{candidate_name}" \notin Range(RenderedBody(wcur[w]))
    /\ PassDone(MainWorker) =>
        \A q \in pending_emails[MainWorker] : Resolved(q) /\ CallsFor(q) = 1

\* Row q is not after row r in the order by due time, then candidate id,
\* then sequence number.
NotAfter(q, r) ==
    \/ email_queue[q].scheduled_for < email_queue[r].scheduled_for
    \/ /\ email_queue[q].scheduled_for = email_queue[r].scheduled_for
       /\ \/ email_queue[q].candidate_id < email_queue[r].candidate_id
          \/ /\ email_queue[q].candidate_id = email_queue[r].candidate_id
             /\ email_queue[q].email_sequence <= email_queue[r].email_sequence

\* C14: within one pass send_email is invoked for the fetched rows in
\* non-decreasing due-time order, rows of equal due time in ascending
\* candidate id and then ascending sequence number: the row sent is never
\* after a row the loop has still to reach.
C14_DeterministicOrder ==
    [][\A w \in Workers :
        (wpc[w] = "loop" /\ wpc'[w] = "update") =>
            \A r \in wrest'[w] : NotAfter(wcur'[w], r)]_vars

\* Log entries and queue rows of a pair (candidate id, sequence number)
\* with a given status.
LogsWith(c, s, st) ==
    Cardinality({i \in DOMAIN email_logs :
        /\ email_logs[i].candidate_id = c
        /\ email_logs[i].email_sequence = s
        /\ email_logs[i].status = st})
RowsWith(c, s, st) == Cardinality({q \in RowsOf(c, s) : email_queue[q].status = st})
NoPass == \A w \in Workers : wpc[w] = "idle"

\* C15: whenever no pass is in progress, after any sequence of enrollments
\* and passes, every (candidate id, sequence number) has as many log entries
\* as it has sent or failed rows, the entries carrying the statuses of the
\* rows; and every step leaves the entries the log already has in place and
\* unchanged (the log only grows at its end).
C15_LogMatchesQueue ==
    /\ [](NoPass =>
            \A c \in DOMAIN candidates, s \in SequenceNumbers :
                /\ LogsFor(c, s) = RowsWith(c, s, "sent") + RowsWith(c, s, "failed")
                /\ \A st \in {"sent", "failed"} : LogsWith(c, s, st) = RowsWith(c, s, st))
    /\ [][/\ Len(email_logs') >= Len(email_logs)
          /\ SubSeq(email_logs', 1, Len(email_logs)) = email_logs]_vars

\* No pass is in progress; a pair enrolled twice has one row sent, one
\* failed and one log entry for each, and a row of the candidate is still
\* pending.
C15_Witness ==
    /\ NoPass
    /\ \E c \in DOMAIN candidates, s \in SequenceNumbers :
        /\ RowsWith(c, s, "sent") = 1
        /\ RowsWith(c, s, "failed") = 1
        /\ LogsWith(c, s, "sent") = 1
        /\ LogsWith(c, s, "failed") = 1
        /\ \E q \in RowsOfCandidate(c) : email_queue[q].status = "pending"

\* C16: when a pass has stopped part-way, every queue row is either fully
\* resolved (sent or failed, send_email called once for it, one log entry)
\* or untouched (pending, no send_email call, no log entry).
C16_RowResolvedOrUntouched ==
    NoPass =>
        \A q \in Rows :
            LET c == email_queue[q].candidate_id
                s == email_queue[q].email_sequence
            IN Cardinality(RowsOf(c, s)) = 1 =>
                \/ Resolved(q) /\ CallsFor(q) = 1 /\ LogsFor(c, s) = 1
                \/ email_queue[q].status = "pending" /\ CallsFor(q) = 0 /\ LogsFor(c, s) = 0

\* C17: every queue row's candidate id is the id of a row of the candidates
\* table, and a row is created with the sequence number of a template that
\* is in the list at that moment.
C17_RowsReferToCandidateAndTemplate ==
    /\ [](\A q \in Rows : email_queue[q].candidate_id \in DOMAIN candidates)
    /\ [][\A q \in DOMAIN email_queue' \ DOMAIN email_queue :
            /\ email_queue'[q].candidate_id \in DOMAIN candidates
            /\ email_queue'[q].email_sequence \in Range(email_templates)]_vars

\* A row is being created for the second candidate while the table holds
\* two candidates and one template has been removed from the list: the new
\* rows are those of the templates left.
C17_Witness ==
    /\ TriggerDone
    /\ tcid = 2
    /\ Len(email_templates) = 2
    /\ Len(email_queue) = tfirst + 2
    /\ \A q \in Rows : email_queue[q].email_sequence \in Range(email_templates)

\* What a run shows of scheduling and dispatch: its queue rows, its
\* send_email calls, its log entries and the rows its pass has fetched.
Observed(st) == <<st.email_queue, st.calls, st.email_logs, st.fetched>>
\* The candidates of a run without their status.
Unstatused(st) ==
    [c \in DOMAIN st.candidates |->
        [name |-> st.candidates[c].name, email |-> st.candidates[c].email,
         position |-> st.candidates[c].position]]

\* C18: two runs that differ only in the status of candidates and are taken
\* through the same enrollments and passes with the same send_email outcomes
\* have the same queue rows, the same send_email calls and the same log
\* entries.
C18_StatusHasNoEffect ==
    /\ Unstatused(runs[1]) = Unstatused(runs[2])
    /\ Observed(runs[1]) = Observed(runs[2])

\* The runs differ in the status of an enrolled candidate, whose first row
\* a pass has sent in both runs while its later rows wait.
C18_Witness ==
    \E c \in DOMAIN runs[1].candidates :
        /\ runs[1].candidates[c].status = "active"
        /\ runs[2].candidates[c].status = "inactive"
        /\ \A r \in Runs :
            /\ NoRunInPass
            /\ \E q \in DOMAIN runs[r].email_queue :
                /\ runs[r].email_queue[q].candidate_id = c
                /\ runs[r].email_queue[q].status = "sent"
                /\ runs[r].calls[q].ok = 1
            /\ \E q \in DOMAIN runs[r].email_queue :
                /\ runs[r].email_queue[q].candidate_id = c
                /\ runs[r].email_queue[q].status = "pending"
            /\ Len(runs[r].email_logs) >= 1

\* An add_candidate call finds its email address in the table.
Taken(email) == \E i \in DOMAIN candidates : candidates[i].email = email

\* C19: add_candidate with an email address a stored candidate already has
\* writes nothing and returns None: candidates, queue and log are as before;
\* and no two stored candidates ever share an email address.
C19_DuplicateEmailRejected ==
    /\ [](\A i, j \in DOMAIN candidates :
            i # j => candidates[i].email # candidates[j].email)
    /\ [][\A e \in Emails :
            (Taken(e) /\ add_candidate(Name, e, Position)) =>
                /\ add_candidate_result(e) = PyNone
                /\ UNCHANGED <<candidates, email_queue, email_logs>>]_vars

\* Both addresses are stored, each once, with rows queued and a send
\* logged: any add_candidate call now is for a stored address, and the
\* state after it is this one.
C19_Witness ==
    /\ Quiet
    /\ \A e \in Emails : Taken(e) /\ add_candidate_result(e) = PyNone
    /\ Len(candidates) = Cardinality(Emails)
    /\ email_queue # <<>>
    /\ email_logs # <<>>

\* The rows get_candidates gave the handler that have the requested id.
RouteHits(h) ==
    {i \in DOMAIN route_candidates[h] : route_candidates[h][i].id = route_id[h]}

\* C20: in the click-to-send path every stage stays in 0..3; a request for
\* a stored candidate at stage s < 3 goes on to send the stage s+1 email
\* (and sets the stage to s+1 after the send returned), a request for a
\* candidate at stage 3 or above and a request for an unknown id send
\* nothing and change no stage.
C20_ClickToSend ==
    /\ [](\A i \in DOMAIN app_candidates : app_candidates[i].stage \in 0..3)
    /\ [][\A h \in Requests :
            (app_pc[h] = "find" /\ app_pc'[h] # "find") =>
                IF \E i \in RouteHits(h) : route_candidates[h][i].stage < 3
                THEN app_pc'[h] = "send_next_email"
                ELSE app_pc'[h] # "send_next_email" /\ UNCHANGED app_candidates]_vars

\* C21: however the add_candidate calls of the web app interleave, no two
\* stored candidates share an id, and the ids, in the order the rows were
\* stored, go up strictly from 1.
C21_UniqueIncreasingIds ==
    /\ \A i, j \in DOMAIN app_candidates :
            i # j => app_candidates[i].id # app_candidates[j].id
    /\ \A i, j \in DOMAIN app_candidates :
            i < j => app_candidates[i].id < app_candidates[j].id
    /\ app_candidates # <<>> => app_candidates[1].id = 1
====
